---- MODULE Spec2Model ----
(***************************************************************************)
(* A model of src/src/App.jsx: the upload list kept by the App component   *)
(* (handleFilesSelected, the per-file timer callback with                  *)
(* ingestFileToAstra, handleRemoveFile), the chat adapter                  *)
(* (customSendMessage, extractLangflowMessage, buildTextResponse) and the  *)
(* session identifier (sessionRef, regenerateSessionId,                    *)
(* handleBeforeRender).                                                    *)
(*                                                                         *)
(* Conventions.  JavaScript runs every handler and every continuation of   *)
(* an await to completion, so one action is one such run.  A string is a   *)
(* sequence of characters; a string literal of the source is a sequence of *)
(* one opaque character that is no white space.  crypto.randomUUID() is    *)
(* modelled by its contract: the n-th call returns the value n, a value no *)
(* earlier call returned.  Date values are abstracted to "Date".           *)
(***************************************************************************)
EXTENDS Integers, Sequences, FiniteSets, TLC

VARIABLES
    \* module constants read from import.meta.env (App.jsx 7-14)
    LANGFLOW_URL, LANGFLOW_ORG_ID, LANGFLOW_TOKEN,
    ASTRA_DB_API_ENDPOINT, ASTRA_DB_KEYSPACE, ASTRA_DB_COLLECTION, ASTRA_DB_TOKEN,
    \* number of identifiers handed out by crypto.randomUUID so far
    uuidCount,
    \* App state (App.jsx 164-172)
    uploadedFiles, sessionRef, resetRegisteredRef,
    \* the pending setTimeout callbacks of handleFilesSelected, in creation order,
    \* each with the requests it sent to the document store and with how its
    \* ingestion settled
    tasks,
    \* history: the ids removed by handleRemoveFile
    removed,
    \* the chat component: RESET handlers registered on the instance, whether
    \* it has rendered, the messages added to it, the number of RESET events
    resetHandlers, rendered, chatMessages, resetCount,
    \* the invocations of customSendMessage, in order
    calls,
    \* the argument and the outcome of one call of extractLangflowMessage
    data, extracted

envVars == <<LANGFLOW_URL, LANGFLOW_ORG_ID, LANGFLOW_TOKEN,
             ASTRA_DB_API_ENDPOINT, ASTRA_DB_KEYSPACE, ASTRA_DB_COLLECTION, ASTRA_DB_TOKEN>>
uploadVars == <<uploadedFiles, tasks, removed>>
chatVars == <<sessionRef, resetRegisteredRef, resetHandlers, rendered, chatMessages,
              resetCount, calls>>
extractVars == <<data, extracted>>
vars == <<envVars, uuidCount, uploadVars, chatVars, extractVars>>

----------------------------------------------------------------------------
(* Bounds *)

\* records created by handleFilesSelected in one behaviour
MaxFiles == 2
\* files carried by one change event of the file input
MaxSelect == 2
\* invocations of customSendMessage in one behaviour
MaxRequests == 2
\* RESET events of the chat in one behaviour
MaxResets == 1
\* entries of data.outputs, sub-entries of a body, and values of a body (at
\* its message paths and as elements of its messages arrays)
MaxOutputs == 2
MaxSubEntries == 2
MaxValues == 2

----------------------------------------------------------------------------
(* Environment values *)

\* what import.meta.env.X can hold: nothing, or a value
EnvValues == {"", "value"}

\* X || fallback for strings: the empty string is falsy
OrDefault(v, d) == IF v = "" THEN d ELSE v

\* the File objects a user can select: [name, size]
Files == {[name |-> "a.pdf", size |-> 10], [name |-> "b.txt", size |-> 0]}

RECURSIVE SeqsUpTo(_, _)
SeqsUpTo(S, n) ==
    IF n = 0 THEN {<<>>}
    ELSE LET shorter == SeqsUpTo(S, n - 1)
         IN shorter \cup {Append(s, x) : s \in {t \in shorter : Len(t) = n - 1}, x \in S}

\* Array.prototype.map
Map(s, F(_)) == [i \in 1..Len(s) |-> F(s[i])]

----------------------------------------------------------------------------
(* JavaScript values and strings *)

Undefined == [t |-> "undefined", s |-> <<>>]
Null == [t |-> "null", s |-> <<>>]
\* a value that is neither nullish nor a string
Number == [t |-> "number", s |-> <<>>]
Str(chars) == [t |-> "string", s |-> chars]
\* a string literal of the source
Literal(text) == Str(<<text>>)
\* the outcome of an expression that throws
Thrown(error) == [t |-> "throw", s |-> <<error>>]
\* no outcome yet
Pending == [t |-> "pending", s |-> <<>>]

Nullish(v) == v.t \in {"undefined", "null"}
\* a ?? b
Coalesce(a, b) == IF Nullish(a) THEN b ELSE a
\* typeof v === 'string'
IsString(v) == v.t = "string"

WhiteSpace == {" "}

RECURSIVE TrimStart(_)
TrimStart(chars) ==
    IF chars # <<>> /\ Head(chars) \in WhiteSpace THEN TrimStart(Tail(chars)) ELSE chars

RECURSIVE TrimEnd(_)
TrimEnd(chars) ==
    IF chars # <<>> /\ chars[Len(chars)] \in WhiteSpace
    THEN TrimEnd(SubSeq(chars, 1, Len(chars) - 1))
    ELSE chars

\* String.prototype.trim
Trim(chars) == TrimEnd(TrimStart(chars))

----------------------------------------------------------------------------
(* Identifiers *)

\* makeId (16-20): the next identifier after n calls of crypto.randomUUID
makeId(n) == n + 1

\* createSessionId (22-26)
createSessionId(n) == n + 1

----------------------------------------------------------------------------
(* ingestFileToAstra (109-161) *)

AstraConfigMissing ==
    \/ ASTRA_DB_API_ENDPOINT = ""
    \/ ASTRA_DB_KEYSPACE = ""
    \/ ASTRA_DB_COLLECTION = ""
    \/ ASTRA_DB_TOKEN = ""

\* line 118
SkippedResult == [success |-> FALSE, skipped |-> TRUE, data |-> "undefined",
                  error |-> "undefined"]
\* line 156
SuccessResult == [success |-> TRUE, skipped |-> FALSE, data |-> "data",
                  error |-> "undefined"]
\* line 159; e is the message of the error caught
ErrorResult(e) == [success |-> FALSE, skipped |-> FALSE, data |-> "undefined",
                   error |-> e]

\* how readFileAsBase64 (93-107) can settle
ReadOutcomes == {"base64", "Failed to read file as base64.", "Unknown file read error"}
\* how the fetch of 132-155 and the reading of its body can settle
FetchOutcomes == {"ok", "rejected", "not ok", "bad json"}

\* 148-160 without the check of response.ok
FetchResultUnchecked(o) ==
    CASE o \in {"ok", "not ok"} -> SuccessResult
      [] o = "rejected" -> ErrorResult("Failed to fetch")
      [] o = "bad json" -> ErrorResult("Unexpected token")

\* the result returned at 148-160 for each way the fetch can settle
FetchResult(o) ==
    CASE o = "ok" -> SuccessResult
      [] o = "rejected" -> ErrorResult("Failed to fetch")
      [] o = "not ok" -> ErrorResult("Astra insertMany request failed")
      [] o = "bad json" -> ErrorResult("Unexpected token")

----------------------------------------------------------------------------
(* The upload list *)

\* the records of 188-195 with makeId called once for the event
NextFilesOneId(files, n) ==
    [i \in 1..Len(files) |->
        [id |-> makeId(n), file |-> files[i], name |-> files[i].name,
         size |-> files[i].size, createdAt |-> "Date", status |-> "uploading",
         completedAt |-> "undefined", astraResponse |-> "undefined",
         errorMessage |-> "undefined"]]

\* the records built at 188-195 from the files of the event; n is uuidCount
NextFiles(files, n) ==
    [i \in 1..Len(files) |->
        [id |-> makeId(n + i - 1), file |-> files[i], name |-> files[i].name,
         size |-> files[i].size, createdAt |-> "Date", status |-> "uploading",
         completedAt |-> "undefined", astraResponse |-> "undefined",
         errorMessage |-> "undefined"]]

\* the updater of 205-226 with skipped alone taken for success
UpdatedItemSkippedOnly(item, entry, ingestionResult) ==
    IF item.id # entry.id THEN item
    ELSE IF ingestionResult.skipped
         THEN [item EXCEPT !.status = "complete", !.completedAt = "Date",
                           !.astraResponse = "null"]
         ELSE [item EXCEPT !.status = "error",
                           !.errorMessage = IF ingestionResult.error = "undefined"
                                            THEN "Failed to ingest file."
                                            ELSE ingestionResult.error]

\* the updater of 205-226 with another word for the failed status
UpdatedItemFailed(item, entry, ingestionResult) ==
    IF item.id # entry.id THEN item
    ELSE IF ingestionResult.success \/ ingestionResult.skipped
         THEN [item EXCEPT !.status = "complete", !.completedAt = "Date",
                           !.astraResponse = IF ingestionResult.data = "undefined"
                                             THEN "null" ELSE ingestionResult.data]
         ELSE [item EXCEPT !.status = "failed",
                           !.errorMessage = IF ingestionResult.error = "undefined"
                                            THEN "Failed to ingest file."
                                            ELSE ingestionResult.error]

\* the updater of 205-226 without the comparison of ids
UpdatedItemAny(item, entry, ingestionResult) ==
    IF ingestionResult.success \/ ingestionResult.skipped
    THEN [item EXCEPT !.status = "complete", !.completedAt = "Date",
                      !.astraResponse = IF ingestionResult.data = "undefined"
                                        THEN "null" ELSE ingestionResult.data]
    ELSE [item EXCEPT !.status = "error",
                      !.errorMessage = IF ingestionResult.error = "undefined"
                                       THEN "Failed to ingest file."
                                       ELSE ingestionResult.error]

\* the updater of 205-226 applied to one item
UpdatedItem(item, entry, ingestionResult) ==
    IF item.id # entry.id THEN item
    ELSE IF ingestionResult.success \/ ingestionResult.skipped
         THEN [item EXCEPT !.status = "complete", !.completedAt = "Date",
                           !.astraResponse = IF ingestionResult.data = "undefined"
                                             THEN "null" ELSE ingestionResult.data]
         ELSE [item EXCEPT !.status = "error",
                           !.errorMessage = IF ingestionResult.error = "undefined"
                                            THEN "Failed to ingest file."
                                            ELSE ingestionResult.error]

\* the update of 205-226 that adds the record when the list has none with its id
ApplyResultOrAdd(prev, entry, ingestionResult) ==
    IF \E i \in 1..Len(prev) : prev[i].id = entry.id
    THEN [i \in 1..Len(prev) |-> UpdatedItem(prev[i], entry, ingestionResult)]
    ELSE Append(prev, UpdatedItem(entry, entry, ingestionResult))

\* setUploadedFiles((prev) => prev.map(...)) of 205-226
ApplyResult(prev, entry, ingestionResult) ==
    [i \in 1..Len(prev) |-> UpdatedItem(prev[i], entry, ingestionResult)]

\* the filter of handleRemoveFile (234)
WithoutFile(prev, fileId) == SelectSeq(prev, LAMBDA file : file.id # fileId)

\* handleFilesSelected (182-231)
handleFilesSelected(files) ==
    /\ Len(tasks) + Len(files) <= MaxFiles
    /\ IF Len(files) = 0
       THEN UNCHANGED <<uploadedFiles, tasks, uuidCount>>
       ELSE LET nextFiles == NextFiles(files, uuidCount)
            IN /\ uuidCount' = uuidCount + Len(files)
               /\ uploadedFiles' = uploadedFiles \o nextFiles
               /\ tasks' = tasks \o [i \in 1..Len(files) |->
                                        [entry |-> nextFiles[i], pc |-> "timer",
                                         result |-> SkippedResult, requests |-> 0,
                                         outcome |-> "none"]]
    /\ UNCHANGED <<envVars, removed, chatVars, extractVars>>

\* the callback of setTimeout (200-204) up to its first await that suspends:
\* without configuration ingestFileToAstra returns at once and the callback
\* runs through; otherwise it waits for the FileReader
TimerFires(t) ==
    /\ tasks[t].pc = "timer"
    /\ IF AstraConfigMissing
       THEN /\ tasks' = [tasks EXCEPT ![t].pc = "done", ![t].result = SkippedResult,
                                  ![t].outcome = "skipped"]
            /\ uploadedFiles' = ApplyResult(uploadedFiles, tasks[t].entry, SkippedResult)
       ELSE /\ tasks' = [tasks EXCEPT ![t].pc = "reading"]
            /\ UNCHANGED uploadedFiles
    /\ UNCHANGED <<envVars, uuidCount, removed, chatVars, extractVars>>

\* readFileAsBase64 settles (122): on success the request of 132 is sent, on
\* failure the catch of 157 returns and the callback runs through
FileRead(t, o) ==
    /\ tasks[t].pc = "reading"
    /\ IF o = "base64"
       THEN /\ tasks' = [tasks EXCEPT ![t].pc = "fetching", ![t].requests = @ + 1]
            /\ UNCHANGED uploadedFiles
       ELSE /\ tasks' = [tasks EXCEPT ![t].pc = "done", ![t].result = ErrorResult(o),
                                  ![t].outcome = o]
            /\ uploadedFiles' = ApplyResult(uploadedFiles, tasks[t].entry, ErrorResult(o))
    /\ UNCHANGED <<envVars, uuidCount, removed, chatVars, extractVars>>

\* the fetch of 132 and its body settle (148-160), and the callback runs through
FetchSettles(t, o) ==
    /\ tasks[t].pc = "fetching"
    /\ tasks' = [tasks EXCEPT ![t].pc = "done", ![t].result = FetchResult(o),
                          ![t].outcome = o]
    /\ uploadedFiles' = ApplyResult(uploadedFiles, tasks[t].entry, FetchResult(o))
    /\ UNCHANGED <<envVars, uuidCount, removed, chatVars, extractVars>>

\* handleRemoveFile (233-235), called from the button of a listed item (447)
handleRemoveFile(fileId) ==
    /\ uploadedFiles' = WithoutFile(uploadedFiles, fileId)
    /\ removed' = removed \cup {fileId}
    /\ UNCHANGED <<envVars, uuidCount, tasks, chatVars, extractVars>>

----------------------------------------------------------------------------
(* The parsed reply body and extractLangflowMessage (45-75) *)

(* A parsed body is null or an object whose outputs is absent, a value     *)
(* that is no array, or an array of entries; an entry is null or an object *)
(* with outputs of the same three kinds, holding sub-entries; a sub-entry  *)
(* is null or an object with the values at outputs.message.message (omm),  *)
(* artifacts.message (am), results.message.text (rt) and with messages,    *)
(* absent, no array, or an array given by the .message of each element.    *)
NoArray == [t |-> "undefined", items |-> <<>>]
NotAnArray == [t |-> "object", items |-> <<>>]
Array(items) == [t |-> "array", items |-> items]

NullData == [t |-> "null", outputs |-> NoArray]
Body(outputs) == [t |-> "object", outputs |-> outputs]
NullEntry == [t |-> "null", outputs |-> NoArray]
Entry(outputs) == [t |-> "object", outputs |-> outputs]
NullSubEntry == [t |-> "null", omm |-> Undefined, am |-> Undefined, rt |-> Undefined,
                 messages |-> NoArray]
SubEntry(omm, am, messages, rt) ==
    [t |-> "object", omm |-> omm, am |-> am, rt |-> rt, messages |-> messages]

\* a?.[0] for an array-like a, with the value to stand for undefined
First(a, undefined) ==
    IF a.t = "array" /\ a.items # <<>> THEN a.items[1] ELSE undefined

\* data?.outputs?.[0]?.outputs?.[0]
FirstSubEntry(d) == First(First(d.outputs, NullEntry).outputs, NullSubEntry)

\* the chain of 48-52
PreferredValue(d) ==
    LET sub == FirstSubEntry(d)
    IN Coalesce(sub.omm,
       Coalesce(sub.am,
       Coalesce(First(sub.messages, Undefined),
                sub.rt)))

\* the callback of the inner flatMap (60-67) on one sub-entry: the strings
\* it yields, or a TypeError when messages has no map method
SubEntryStrings(subEntry) ==
    LET maybeString == Coalesce(subEntry.omm, subEntry.am)
    IN IF IsString(maybeString) THEN [threw |-> FALSE, strings |-> <<maybeString>>]
       ELSE CASE subEntry.messages.t = "undefined" -> [threw |-> FALSE, strings |-> <<>>]
              [] subEntry.messages.t = "object" -> [threw |-> TRUE, strings |-> <<>>]
              [] subEntry.messages.t = "array" ->
                   [threw |-> FALSE,
                    strings |-> SelectSeq(subEntry.messages.items, IsString)]

\* Array.prototype.flatMap: the outcome of the callback on the first item
\* followed by the outcome on the rest; an exception ends the iteration
FlatMapStep(head, rest) ==
    IF head.threw THEN head
    ELSE [threw |-> rest.threw, strings |-> head.strings \o rest.strings]

\* inner.flatMap(...) of 60-67
RECURSIVE InnerFlatMap(_)
InnerFlatMap(inner) ==
    IF inner = <<>> THEN [threw |-> FALSE, strings |-> <<>>]
    ELSE FlatMapStep(SubEntryStrings(Head(inner)), InnerFlatMap(Tail(inner)))

\* the callback of the outer flatMap (58-68) on one entry
EntryStrings(entry) ==
    CASE entry.outputs.t = "undefined" -> [threw |-> FALSE, strings |-> <<>>]
      [] entry.outputs.t = "object" -> [threw |-> TRUE, strings |-> <<>>]
      [] entry.outputs.t = "array" -> InnerFlatMap(entry.outputs.items)

\* data.outputs.flatMap(...) of 58-68
RECURSIVE OuterFlatMap(_)
OuterFlatMap(entries) ==
    IF entries = <<>> THEN [threw |-> FALSE, strings |-> <<>>]
    ELSE FlatMapStep(EntryStrings(Head(entries)), OuterFlatMap(Tail(entries)))

\* extractLangflowMessage (45-75)
extractLangflowMessage(d) ==
    IF d.t = "null" THEN Null
    ELSE LET outputs == PreferredValue(d)
         IN IF IsString(outputs) /\ Len(Trim(outputs.s)) > 0
            THEN Str(Trim(outputs.s))
            ELSE CASE d.outputs.t = "undefined" -> Null
                   [] d.outputs.t = "object" ->
                        Thrown("TypeError: data.outputs.flatMap is not a function")
                   [] d.outputs.t = "array" ->
                        LET text == OuterFlatMap(d.outputs.items)
                        IN IF text.threw THEN Thrown("TypeError: not a function")
                           ELSE IF Len(text.strings) > 0 THEN text.strings[1]
                           ELSE Null

----------------------------------------------------------------------------
(* The chat adapter *)

\* the strings of 314, 339 and 343-344
ConfigMissingText ==
    Literal("LangFlow configuration is missing. Please check the environment variables.")
NoReplyText == Literal("I was unable to retrieve a response from the LangFlow assistant.")
ProblemText ==
    Literal("Sorry, I ran into a problem reaching the LangFlow assistant. Please try again in a moment.")

\* the condition of 313 with the token forgotten
LangflowUrlOrOrgMissing ==
    \/ LANGFLOW_URL = ""
    \/ LANGFLOW_ORG_ID = ""

\* the condition of 313
LangflowConfigMissing ==
    \/ LANGFLOW_URL = ""
    \/ LANGFLOW_ORG_ID = ""
    \/ LANGFLOW_TOKEN = ""

\* request?.input?.text?.trim() (300)
UserText(request) ==
    IF IsString(request.text) THEN Str(Trim(request.text.s)) ELSE Undefined

\* !userText (301): undefined and the empty string are falsy
Falsy(v) == Nullish(v) \/ (IsString(v) /\ v.s = <<>>)

\* buildTextResponse (28-43); n is uuidCount
buildTextResponse(text, requestId, n) ==
    [id |-> makeId(n), request_id |-> requestId, item_id |-> makeId(n + 1),
     response_type |-> "text", text |-> text, timestamp |-> "Date"]

\* instance.messaging.addMessage(buildTextResponse(text, request?.id)) by
\* invocation c of customSendMessage; the chat component takes the message
\* and its promise resolves
AddMessage(c, text, requestId) ==
    /\ chatMessages' = Append(chatMessages,
                              [by |-> c, message |-> buildTextResponse(text, requestId, uuidCount)])
    /\ uuidCount' = uuidCount + 2

\* the payload of 305-310
Payload(userText) ==
    [output_type |-> "chat", input_type |-> "chat", input_value |-> userText,
     session_id |-> sessionRef]

NoPayload ==
    [output_type |-> "chat", input_type |-> "chat", input_value |-> Undefined,
     session_id |-> 0]

\* an invocation: its request, the payload it built, where it stands, the
\* requests it sent to the workflow endpoint, how the request settled, and
\* the number of RESET events before it
Call(request, payload, pc, requests) ==
    [request |-> request, payload |-> payload, pc |-> pc, requests |-> requests,
     outcome |-> "none", body |-> NullData, epoch |-> resetCount]

\* customSendMessage (299-330) up to the await of fetch, or to its return
customSendMessage(request) ==
    /\ rendered
    /\ Len(calls) < MaxRequests
    /\ LET userText == UserText(request)
           c == Len(calls) + 1
       IN IF Falsy(userText)
          THEN /\ calls' = Append(calls, Call(request, NoPayload, "returned", 0))
               /\ UNCHANGED <<chatMessages, uuidCount>>
          ELSE IF LangflowConfigMissing
          THEN /\ calls' = Append(calls, Call(request, Payload(userText), "returned", 0))
               /\ AddMessage(c, ConfigMissingText, request.id)
          ELSE /\ calls' = Append(calls, Call(request, Payload(userText), "fetching", 1))
               /\ UNCHANGED <<chatMessages, uuidCount>>
    /\ UNCHANGED <<envVars, uploadVars, sessionRef, resetRegisteredRef, resetHandlers,
                   rendered, resetCount, extractVars>>

\* how the fetch of 320 and the reading of its body can settle
ReplyOutcomes == {"ok", "rejected", "aborted", "not ok", "bad json"}

\* 332-347 without the check of response.ok
SettledUnchecked(o, b) ==
    IF o \in {"rejected", "aborted", "bad json"} THEN [text |-> ProblemText, pc |-> "thrown"]
    ELSE LET message == extractLangflowMessage(b)
         IN IF message.t = "throw" THEN [text |-> ProblemText, pc |-> "thrown"]
            ELSE [text |-> Coalesce(message, NoReplyText), pc |-> "returned"]

\* 332-347 once the request has settled with outcome o and parsed body b: the
\* text added to the chat and how the invocation ends
Settled(o, b) ==
    IF o # "ok" THEN [text |-> ProblemText, pc |-> "thrown"]
    ELSE LET message == extractLangflowMessage(b)
         IN IF message.t = "throw" THEN [text |-> ProblemText, pc |-> "thrown"]
            ELSE [text |-> Coalesce(message, NoReplyText), pc |-> "returned"]

\* the continuation of customSendMessage after the await of 320
ReplyArrives(c, o, b) ==
    /\ calls[c].pc = "fetching"
    /\ LET end == Settled(o, b)
       IN /\ calls' = [calls EXCEPT ![c].pc = end.pc, ![c].outcome = o,
                                    ![c].body = IF o = "ok" THEN b ELSE NullData]
          /\ AddMessage(c, end.text, calls[c].request.id)
    /\ UNCHANGED <<envVars, uploadVars, sessionRef, resetRegisteredRef, resetHandlers,
                   rendered, resetCount, extractVars>>

\* regenerateSessionId (174-176): the new value of sessionRef.current
regenerateSessionId(n) == createSessionId(n)

\* handleBeforeRender that registers no handler
handleBeforeRenderUnregistered ==
    /\ ~rendered
    /\ rendered' = TRUE
    /\ resetRegisteredRef' = TRUE
    /\ UNCHANGED <<envVars, uuidCount, uploadVars, sessionRef, chatMessages, resetCount,
                   calls, extractVars, resetHandlers>>

\* handleBeforeRender (353-366), called by the chat component before it renders
handleBeforeRender ==
    /\ ~rendered
    /\ rendered' = TRUE
    /\ IF resetRegisteredRef
       THEN UNCHANGED <<resetRegisteredRef, resetHandlers>>
       ELSE /\ resetRegisteredRef' = TRUE
            /\ resetHandlers' = resetHandlers + 1
    /\ UNCHANGED <<envVars, uuidCount, uploadVars, sessionRef, chatMessages, resetCount,
                   calls, extractVars>>

\* the chat component emits BusEventType.RESET and runs the handlers
\* registered with instance.on
Reset ==
    /\ rendered
    /\ resetCount < MaxResets
    /\ resetCount' = resetCount + 1
    /\ IF resetHandlers > 0
       THEN /\ sessionRef' = regenerateSessionId(uuidCount)
            /\ uuidCount' = uuidCount + 1
       ELSE UNCHANGED <<sessionRef, uuidCount>>
    /\ UNCHANGED <<envVars, uploadVars, resetRegisteredRef, resetHandlers, rendered,
                   chatMessages, calls, extractVars>>

\* the requests the chat component can pass
UserTexts == {Undefined, Str(<<" ">>), Str(<<" ", "h", "i", " ">>)}
RequestIds == {Literal("request-a"), Literal("request-b")}
Requests == [text : UserTexts, id : RequestIds]

\* one sub-entry with the given values, alone in one entry
OneSubEntry(omm, am, messages, rt) ==
    Body(Array(<<Entry(Array(<<SubEntry(omm, am, messages, rt)>>))>>))

\* bodies the workflow endpoint can answer with
Bodies ==
    { NullData,
      Body(NotAnArray),
      OneSubEntry(Str(<<" ", "a", " ">>), Undefined, NoArray, Undefined),
      OneSubEntry(Undefined, Str(<<" ">>), NoArray, Undefined) }

----------------------------------------------------------------------------
(* Specifications *)

InitEnv ==
    /\ LANGFLOW_URL \in EnvValues
    /\ LANGFLOW_ORG_ID \in EnvValues
    /\ LANGFLOW_TOKEN \in EnvValues
    /\ ASTRA_DB_API_ENDPOINT \in EnvValues
    /\ ASTRA_DB_KEYSPACE \in EnvValues
    /\ ASTRA_DB_COLLECTION \in {OrDefault(v, "raw_esg") : v \in EnvValues}
    /\ ASTRA_DB_TOKEN \in EnvValues

InitApp ==
    /\ uuidCount = 1
    /\ uploadedFiles = <<>>
    /\ sessionRef = createSessionId(0)
    /\ resetRegisteredRef = FALSE
    /\ tasks = <<>>
    /\ removed = {}
    /\ resetHandlers = 0
    /\ rendered = FALSE
    /\ chatMessages = <<>>
    /\ resetCount = 0
    /\ calls = <<>>
    /\ data = NullData
    /\ extracted = Pending

\* the upload list alone: the LangFlow configuration is fixed
UploadInit ==
    /\ InitEnv
    /\ LANGFLOW_URL = "value" /\ LANGFLOW_ORG_ID = "value" /\ LANGFLOW_TOKEN = "value"
    /\ InitApp

UploadNext ==
    \/ \E files \in SeqsUpTo(Files, MaxSelect) : handleFilesSelected(files)
    \/ \E t \in 1..Len(tasks) : TimerFires(t)
    \/ \E t \in 1..Len(tasks), o \in ReadOutcomes : FileRead(t, o)
    \/ \E t \in 1..Len(tasks), o \in FetchOutcomes : FetchSettles(t, o)
    \/ \E i \in 1..Len(uploadedFiles) : handleRemoveFile(uploadedFiles[i].id)

UploadSpec == UploadInit /\ [][UploadNext]_vars

\* the chat alone: the document store configuration is fixed
ChatInit ==
    /\ InitEnv
    /\ ASTRA_DB_API_ENDPOINT = "value" /\ ASTRA_DB_KEYSPACE = "value"
    /\ ASTRA_DB_COLLECTION = "value" /\ ASTRA_DB_TOKEN = "value"
    /\ InitApp

ChatNext ==
    \/ handleBeforeRender
    \/ \E request \in Requests : customSendMessage(request)
    \/ \E c \in 1..Len(calls), o \in ReplyOutcomes, b \in Bodies : ReplyArrives(c, o, b)
    \/ Reset

ChatSpec == ChatInit /\ [][ChatNext]_vars

(* The bodies extractLangflowMessage is applied to are built one part at a *)
(* time, so that every body within the bounds is reached.                  *)

\* the values a message path can hold besides undefined
Values == {Number, Str(<<" ">>), Str(<<" ", "a", " ">>), Str(<<"b">>)}

RECURSIVE Sum(_)
Sum(s) == IF s = <<>> THEN 0 ELSE Head(s) + Sum(Tail(s))

\* the number of values of a body: the message paths that hold one and
\* the elements of the messages arrays
Defined(v) == IF v = Undefined THEN 0 ELSE 1
ValuesIn(subEntry) ==
    Defined(subEntry.omm) + Defined(subEntry.am) + Defined(subEntry.rt)
        + Len(subEntry.messages.items)
ValuesOf(d) ==
    Sum([i \in 1..Len(d.outputs.items) |->
            Sum([j \in 1..Len(d.outputs.items[i].outputs.items) |->
                    ValuesIn(d.outputs.items[i].outputs.items[j])])])
\* the number of sub-entries of a body
SubEntriesOf(d) ==
    Sum([i \in 1..Len(d.outputs.items) |-> Len(d.outputs.items[i].outputs.items)])

EmptyArrays == {NoArray, NotAnArray, Array(<<>>)}

ExtractInit ==
    /\ InitEnv
    /\ LANGFLOW_URL = "value" /\ LANGFLOW_ORG_ID = "value" /\ LANGFLOW_TOKEN = "value"
    /\ ASTRA_DB_API_ENDPOINT = "value" /\ ASTRA_DB_KEYSPACE = "value"
    /\ ASTRA_DB_COLLECTION = "value" /\ ASTRA_DB_TOKEN = "value"
    /\ InitApp

Building == extracted = Pending /\ data.t = "object"

\* the body is an object: its outputs are absent, no array or an empty array
NewBody(outputs) ==
    /\ extracted = Pending /\ data = NullData
    /\ data' = Body(outputs)
    /\ UNCHANGED <<envVars, uuidCount, uploadVars, chatVars, extracted>>

\* one more entry of data.outputs
NewEntry(entry) ==
    /\ Building
    /\ data.outputs.t = "array" /\ Len(data.outputs.items) < MaxOutputs
    /\ data' = [data EXCEPT !.outputs.items = Append(@, entry)]
    /\ UNCHANGED <<envVars, uuidCount, uploadVars, chatVars, extracted>>

\* one more sub-entry of data.outputs[i].outputs
NewSubEntry(i, subEntry) ==
    /\ Building
    /\ data.outputs.items[i].outputs.t = "array"
    /\ SubEntriesOf(data) < MaxSubEntries
    /\ data' = [data EXCEPT !.outputs.items[i].outputs.items = Append(@, subEntry)]
    /\ UNCHANGED <<envVars, uuidCount, uploadVars, chatVars, extracted>>

\* a value at one of the three fixed paths of data.outputs[i].outputs[j]
NewValue(i, j, path, v) ==
    /\ Building
    /\ ValuesOf(data) < MaxValues
    /\ LET subEntry == data.outputs.items[i].outputs.items[j]
       IN /\ subEntry.t = "object"
          /\ \/ /\ path = "omm" /\ subEntry.omm = Undefined
                /\ data' = [data EXCEPT !.outputs.items[i].outputs.items[j].omm = v]
             \/ /\ path = "am" /\ subEntry.am = Undefined
                /\ data' = [data EXCEPT !.outputs.items[i].outputs.items[j].am = v]
             \/ /\ path = "rt" /\ subEntry.rt = Undefined
                /\ data' = [data EXCEPT !.outputs.items[i].outputs.items[j].rt = v]
    /\ UNCHANGED <<envVars, uuidCount, uploadVars, chatVars, extracted>>

\* one more element of data.outputs[i].outputs[j].messages, with .message v
NewMessage(i, j, v) ==
    /\ Building
    /\ ValuesOf(data) < MaxValues
    /\ LET subEntry == data.outputs.items[i].outputs.items[j]
       IN /\ subEntry.t = "object"
          /\ subEntry.messages.t = "array"
    /\ data' = [data EXCEPT !.outputs.items[i].outputs.items[j].messages.items = Append(@, v)]
    /\ UNCHANGED <<envVars, uuidCount, uploadVars, chatVars, extracted>>

\* const message = extractLangflowMessage(data) (338)
Extract ==
    /\ extracted = Pending
    /\ extracted' = extractLangflowMessage(data)
    /\ UNCHANGED <<envVars, uuidCount, uploadVars, chatVars, data>>

ExtractNext ==
    \/ \E outputs \in EmptyArrays : NewBody(outputs)
    \/ \E outputs \in EmptyArrays : NewEntry(Entry(outputs))
    \/ NewEntry(NullEntry)
    \/ \E i \in 1..Len(data.outputs.items), messages \in EmptyArrays :
          NewSubEntry(i, SubEntry(Undefined, Undefined, messages, Undefined))
    \/ \E i \in 1..Len(data.outputs.items) : NewSubEntry(i, NullSubEntry)
    \/ \E i \in 1..Len(data.outputs.items) :
          \E j \in 1..Len(data.outputs.items[i].outputs.items) :
             \/ \E path \in {"omm", "am", "rt"}, v \in Values : NewValue(i, j, path, v)
             \/ \E v \in Values \cup {Undefined} : NewMessage(i, j, v)
    \/ Extract

ExtractSpec == ExtractInit /\ [][ExtractNext]_vars

----------------------------------------------------------------------------
(* What is stated of extractLangflowMessage *)

\* the elements of an array-like value; a value that is no array has none
Items(a) == IF a.t = "array" THEN a.items ELSE <<>>

\* the first value of a sequence that is not nullish, or undefined
RECURSIVE FirstNonNullish(_)
FirstNonNullish(values) ==
    IF values = <<>> THEN Undefined
    ELSE IF ~Nullish(Head(values)) THEN Head(values)
    ELSE FirstNonNullish(Tail(values))

\* the sub-entries outputs[i].outputs[j] of a body, in the order of i, then j
RECURSIVE Concat(_)
Concat(seqs) == IF seqs = <<>> THEN <<>> ELSE Head(seqs) \o Concat(Tail(seqs))
ScannedSubEntries(d) == Concat([i \in 1..Len(Items(d.outputs)) |-> Items(Items(d.outputs)[i].outputs)])

\* the string a scanned sub-entry gives first, or undefined: the value at
\* outputs.message.message, else at artifacts.message, when it is a string,
\* else the first messages[k].message that is a string
ScannedString(subEntry) ==
    LET direct == FirstNonNullish(<<subEntry.omm, subEntry.am>>)
        fromMessages == SelectSeq(Items(subEntry.messages), IsString)
    IN IF IsString(direct) THEN direct
       ELSE IF fromMessages # <<>> THEN fromMessages[1]
       ELSE Undefined

\* the result stated for a body
StatedMessage(d) ==
    IF d.t = "null" THEN Null
    ELSE LET subEntry == IF Items(d.outputs) # <<>> /\ Items(Items(d.outputs)[1].outputs) # <<>>
                         THEN Items(Items(d.outputs)[1].outputs)[1]
                         ELSE NullSubEntry
             preferred == FirstNonNullish(<<subEntry.omm, subEntry.am,
                                            IF Items(subEntry.messages) # <<>>
                                            THEN Items(subEntry.messages)[1] ELSE Undefined,
                                            subEntry.rt>>)
             scanned == Map(ScannedSubEntries(d), ScannedString)
             found == SelectSeq(scanned, IsString)
         IN IF IsString(preferred) /\ \E k \in 1..Len(preferred.s) : preferred.s[k] \notin WhiteSpace
            THEN Str(Trim(preferred.s))
            ELSE IF found # <<>> THEN found[1]
            ELSE Null

\* C6: extractLangflowMessage returns the trimmed first non-nullish value of
\* the four paths of outputs[0].outputs[0] when that is a string with
\* non-whitespace content, otherwise the first string of the scan of every
\* outputs[i].outputs[j], and null when the data is absent or no string is found.
C6_ExtractAsStated == extracted # Pending => extracted = StatedMessage(data)

\* whenever extractLangflowMessage returns, it returns the result stated
ReturnedAsStated ==
    (extracted # Pending /\ extracted.t # "throw") => extracted = StatedMessage(data)

----------------------------------------------------------------------------
(* What is stated of the chat adapter *)

\* the messages added to the chat by invocation c, in order
AddedBy(c) == SelectSeq(chatMessages, LAMBDA m : m.by = c)

\* a string with a character that is no white space
HasText(v) == IsString(v) /\ \E k \in 1..Len(v.s) : v.s[k] \notin WhiteSpace

AnyLangflowValueMissing == "" \in {LANGFLOW_URL, LANGFLOW_ORG_ID, LANGFLOW_TOKEN}

\* invocation c added exactly one message, with this text and its request's id
AddedOnly(c, text) ==
    /\ Len(AddedBy(c)) = 1
    /\ AddedBy(c)[1].message.text = text
    /\ AddedBy(c)[1].message.request_id = calls[c].request.id

\* C1: an invocation of customSendMessage with user text, while a LangFlow
\* configuration value is missing, adds exactly one message, the configuration
\* fallback with the request's id, and sends no request to the workflow endpoint.
C1_MissingConfigFallback ==
    \A c \in 1..Len(calls) :
        (AnyLangflowValueMissing /\ HasText(calls[c].request.text)) =>
            /\ AddedOnly(c, ConfigMissingText)
            /\ calls[c].requests = 0
            /\ calls[c].pc = "returned"

C1_Witness ==
    \E c \in 1..Len(calls) :
        /\ LANGFLOW_TOKEN = "" /\ LANGFLOW_URL # ""
        /\ HasText(calls[c].request.text)
        /\ Len(AddedBy(c)) = 1

\* every request to the workflow endpoint is sent by an invocation, once
Sent(c) == calls[c].requests > 0

\* C3: a workflow request carries the session id stored when customSendMessage
\* was invoked; requests with no RESET between them carry the same session id,
\* requests on either side of a RESET different ones; each RESET replaces the
\* stored session id by one not used before.
C3_SessionPerConversation ==
    /\ [](\A c \in 1..Len(calls), e \in 1..Len(calls) :
            (Sent(c) /\ Sent(e)) =>
                (calls[c].epoch = calls[e].epoch
                    <=> calls[c].payload.session_id = calls[e].payload.session_id))
    /\ [][/\ (Len(calls') = Len(calls) + 1 /\ calls'[Len(calls')].requests > 0) =>
                calls'[Len(calls')].payload.session_id = sessionRef
          /\ resetCount' # resetCount =>
                /\ sessionRef' # sessionRef
                /\ \A c \in 1..Len(calls) : sessionRef' # calls[c].payload.session_id]_vars

C3_Witness ==
    \E c \in 1..Len(calls), e \in 1..Len(calls) :
        /\ Sent(c) /\ Sent(e)
        /\ calls[c].epoch < calls[e].epoch
        /\ calls[c].pc = "fetching"

FailedOutcomes == {"rejected", "aborted", "not ok", "bad json"}

\* C4: when the workflow request fails (the fetch rejects or is aborted, the
\* status is no success, the body is no JSON), the invocation adds exactly one
\* message, the problem text with the request's id, and rethrows; an invocation
\* sends at most one request.
C4_FailureFallback ==
    \A c \in 1..Len(calls) :
        /\ calls[c].requests <= 1
        /\ calls[c].outcome \in FailedOutcomes =>
              /\ AddedOnly(c, ProblemText)
              /\ calls[c].pc = "thrown"

C4_Witness ==
    \E c \in 1..Len(calls) :
        /\ calls[c].outcome = "not ok"
        /\ calls[c].pc = "thrown"
        /\ Len(chatMessages) > 1

\* the recognised paths of a body: the four of outputs[0].outputs[0] and the
\* three scanned of every outputs[i].outputs[j]
PathValues(d) ==
    {FirstSubEntry(d).rt}
        \cup UNION {{sub.omm, sub.am} \cup {sub.messages.items[k] : k \in 1..Len(Items(sub.messages))} :
                      sub \in {ScannedSubEntries(d)[n] : n \in 1..Len(ScannedSubEntries(d))}}

HasAssistantText(d) == d.t = "object" /\ \E v \in PathValues(d) : HasText(v)

\* C5: a reply with a success status and a JSON body without assistant text
\* (a string with non-whitespace content) at any recognised path makes the
\* message added the no-reply text; no message added has an empty or
\* whitespace-only text.
C5_MalformedBodyFallback ==
    /\ \A c \in 1..Len(calls) :
          (calls[c].outcome = "ok" /\ ~HasAssistantText(calls[c].body)) =>
              AddedOnly(c, NoReplyText)
    /\ \A n \in 1..Len(chatMessages) : HasText(chatMessages[n].message.text)

----------------------------------------------------------------------------
(* What is stated of the upload list *)

\* the positions of the list that hold a record with this id
Positions(list, id) == {i \in 1..Len(list) : list[i].id = id}

Listed(id) == Positions(uploadedFiles, id) # {}

\* the callback of task t runs through in this step
Completes(t) == tasks[t].pc # "done" /\ tasks'[t].pc = "done"

\* C2 as stated: whenever ingestFileToAstra returns success for a record
\* created by handleFilesSelected, that record's status changes from uploading
\* to complete, whatever else happened in between.
C2_SuccessAlwaysCompletes ==
    [][\A t \in 1..Len(tasks) :
          (Completes(t) /\ tasks'[t].result.success) =>
              /\ \E i \in Positions(uploadedFiles, tasks[t].entry.id) :
                    uploadedFiles[i].status = "uploading"
              /\ \E i \in Positions(uploadedFiles', tasks[t].entry.id) :
                    uploadedFiles'[i].status = "complete"]_vars

\* C2, amended: when ingestFileToAstra returns success for a record that is
\* still in the list, the record's status changes from uploading to complete;
\* when the record was removed before, the list stays as it is; and a record
\* whose ingestion succeeded never has the status error.
C2_SuccessCompletesListed ==
    /\ [][\A t \in 1..Len(tasks) :
             (Completes(t) /\ tasks'[t].result.success) =>
                 IF Listed(tasks[t].entry.id)
                 THEN \A i \in Positions(uploadedFiles, tasks[t].entry.id) :
                         /\ uploadedFiles[i].status = "uploading"
                         /\ uploadedFiles'[i].id = tasks[t].entry.id
                         /\ uploadedFiles'[i].status = "complete"
                 ELSE uploadedFiles' = uploadedFiles]_vars
    /\ [](\A t \in 1..Len(tasks) :
             (tasks[t].pc = "done" /\ tasks[t].result.success) =>
                 \A i \in Positions(uploadedFiles, tasks[t].entry.id) :
                     uploadedFiles[i].status = "complete")

C2_Witness ==
    \E t \in 1..Len(tasks), u \in 1..Len(tasks) :
        /\ tasks[t].pc = "done" /\ tasks[t].result.success
        /\ Listed(tasks[t].entry.id)
        /\ tasks[u].pc = "done" /\ tasks[u].result.success
        /\ ~Listed(tasks[u].entry.id)

Statuses == {"uploading", "complete", "error"}

\* C7: the status of every record of uploadedFiles is uploading, complete or error.
C7_StatusEnumerated ==
    \A i \in 1..Len(uploadedFiles) : uploadedFiles[i].status \in Statuses

C7_Witness ==
    \E i \in 1..Len(uploadedFiles), k \in 1..Len(uploadedFiles) :
        /\ uploadedFiles[i].status = "complete"
        /\ uploadedFiles[k].status = "error"
        /\ removed = {}

\* C8: no two records of uploadedFiles have the same id, and no id is given
\* to two records, also when a file is selected again, when one event carries
\* several files, and after removals and completions.
C8_UniqueIds ==
    /\ \A i \in 1..Len(uploadedFiles), k \in 1..Len(uploadedFiles) :
          uploadedFiles[i].id = uploadedFiles[k].id => i = k
    /\ \A t \in 1..Len(tasks), u \in 1..Len(tasks) :
          tasks[t].entry.id = tasks[u].entry.id => t = u

C8_Witness ==
    /\ Len(tasks) = 2
    /\ tasks[1].entry.file = tasks[2].entry.file
    /\ tasks[1].pc = "done"
    /\ removed # {}
    /\ Len(uploadedFiles) = 1

\* the list that the records created, the removals and the completions
\* delivered give, whatever their order
RECURSIVE ExpectedFrom(_)
ExpectedFrom(t) ==
    IF t > Len(tasks) THEN <<>>
    ELSE LET entry == tasks[t].entry
             item == IF tasks[t].pc # "done" THEN entry
                     ELSE IF tasks[t].result.success \/ tasks[t].result.skipped
                     THEN [entry EXCEPT !.status = "complete", !.completedAt = "Date",
                                        !.astraResponse = IF tasks[t].result.success
                                                          THEN "data" ELSE "null"]
                     ELSE [entry EXCEPT !.status = "error",
                                        !.errorMessage = tasks[t].result.error]
         IN (IF entry.id \in removed THEN <<>> ELSE <<item>>) \o ExpectedFrom(t + 1)

\* C9: the completion of the upload of a record changes that record alone and
\* keeps the order of the list; it leaves the list as it is when the record
\* was removed; so the list is the same for every order of the completions.
C9_IndependentCompletions ==
    /\ [][\A t \in 1..Len(tasks) :
             Completes(t) =>
                 /\ Len(uploadedFiles') = Len(uploadedFiles)
                 /\ \A i \in 1..Len(uploadedFiles) :
                       /\ uploadedFiles'[i].id = uploadedFiles[i].id
                       /\ uploadedFiles[i].id # tasks[t].entry.id =>
                             uploadedFiles'[i] = uploadedFiles[i]
                 /\ ~Listed(tasks[t].entry.id) => uploadedFiles' = uploadedFiles]_vars
    /\ [](uploadedFiles = ExpectedFrom(1))

C9_Witness ==
    /\ Len(tasks) = 2
    /\ tasks[1].pc = "fetching"
    /\ tasks[2].pc = "done"
    /\ tasks[1].entry.file = tasks[2].entry.file
    /\ Len(uploadedFiles) = 2

\* C10: a record enters the list with status uploading; the only changes of
\* a record's status are from uploading to complete and from uploading to
\* error; a status complete or error stays while the record is in the list.
C10_StatusOneWay ==
    [][/\ \A i \in 1..Len(uploadedFiles') :
             ~Listed(uploadedFiles'[i].id) => uploadedFiles'[i].status = "uploading"
       /\ \A i \in 1..Len(uploadedFiles), k \in 1..Len(uploadedFiles') :
             uploadedFiles'[k].id = uploadedFiles[i].id =>
                \/ uploadedFiles'[k].status = uploadedFiles[i].status
                \/ /\ uploadedFiles[i].status = "uploading"
                   /\ uploadedFiles'[k].status \in {"complete", "error"}]_vars

C10_Witness ==
    \E i \in 1..Len(uploadedFiles), t \in 1..Len(tasks) :
        /\ uploadedFiles[i].status = "error"
        /\ tasks[t].pc = "reading"
        /\ Listed(tasks[t].entry.id)

AnyAstraValueMissing ==
    "" \in {ASTRA_DB_API_ENDPOINT, ASTRA_DB_KEYSPACE, ASTRA_DB_COLLECTION, ASTRA_DB_TOKEN}

\* a file-read failure, a rejected fetch, a non-success status
StatedFailures ==
    {"Failed to read file as base64.", "Unknown file read error", "rejected", "not ok"}

C11_SkippedReached ==
    \E t \in 1..Len(tasks) :
        /\ tasks[t].outcome = "skipped" /\ Listed(tasks[t].entry.id)
        /\ ASTRA_DB_TOKEN = "" /\ ASTRA_DB_API_ENDPOINT # ""

----------------------------------------------------------------------------
(* The whole component *)

Init == InitEnv /\ InitApp

Next == UploadNext \/ ChatNext \/ ExtractNext

Spec == Init /\ [][Next]_vars

====
